---------------------------- MODULE Spec2Model ----------------------------
(***************************************************************************)
(* Model of problem_sandbox.cpp: the user-defined problem example0_g       *)
(* (f = x0^2 + x1^2 + x2^2 + x3^2 in the box [-10,10]^4, with analytic     *)
(* gradient) and the driver main() that wraps it in a pagmo::problem.      *)
(*                                                                         *)
(* decision_vector / fitness_vector / gradient_vector are std::vector of   *)
(* double.  Their entries are modelled by integers: every value used here  *)
(* is a small integer, on which double arithmetic is exact.  A vector is a *)
(* sequence; C++ index i is TLA+ index i + 1.                              *)
(***************************************************************************)
EXTENDS Integers, Sequences, FiniteSets

(***************************************************************************)
(* Bounds of the model.                                                    *)
(***************************************************************************)
\* entries -MaxVal..MaxVal are tried, next to the values around the box
MaxVal == 2
\* longest history of calls on the problem container that is recorded
MaxCalls == 3

VARIABLES
    last,    \* the call of the current statement and its outcome
    fevals,  \* p0's function evaluation counter (problem::get_fevals)
    trace,   \* history: names of the calls made on p0 so far
    pc,      \* per thread: "idle", "running" or "done"
    inv,     \* per thread: the invocation in progress (method, argument)
    res      \* per thread: the outcome of the finished invocation

vars == <<last, fevals, trace, pc, inv, res>>

Threads == {"t1", "t2"}

(***************************************************************************)
(* example0_g                                                              *)
(***************************************************************************)
get_n == 4

\* get_nf() answering with the number of variables
get_nf_wrong == get_n

get_nf == 1

\* std::vector::operator[] does no range check: an index past the end is
\* undefined behaviour.  u is the outcome of such a read: the value found in
\* the memory behind the vector (u.val), or the death of the process
\* (u.crash).
At(x, i, u) == IF i < Len(x) THEN x[i + 1] ELSE u.val

\* the C++ indices fitness() and gradient() read from x
IndicesRead == {0, 1, 2, 3}

ReadsPastEnd(x) == \E i \in IndicesRead : i >= Len(x)

Returned(v) == [status |-> "ok", ret |-> v]

\* the process died inside the call: nothing is returned
Crashed == [status |-> "crash", ret |-> <<>>]

\* fitness() with the last term written x[3]*x[2]
fitness_typo(x, u) ==
    LET retval == <<0>>
    IN  IF ReadsPastEnd(x) /\ u.crash
        THEN Crashed
        ELSE Returned([retval EXCEPT ![1] =
                 At(x, 0, u) * At(x, 0, u) + At(x, 1, u) * At(x, 1, u)
                 + At(x, 2, u) * At(x, 2, u) + At(x, 3, u) * At(x, 2, u)])

\* fitness() refusing a point outside the box
fitness_boxed(x, u) ==
    LET retval == <<0>>
    IN  IF ReadsPastEnd(x) /\ u.crash
        THEN Crashed
        ELSE IF \E i \in 1 .. Len(x) : x[i] < -10 \/ x[i] > 10
        THEN [status |-> "out_of_bounds", ret |-> <<>>]
        ELSE Returned([retval EXCEPT ![1] =
                 At(x, 0, u) * At(x, 0, u) + At(x, 1, u) * At(x, 1, u)
                 + At(x, 2, u) * At(x, 2, u) + At(x, 3, u) * At(x, 3, u)])

\* fitness() accumulating in a static variable that all threads share: a
\* call that overlaps another one picks up part of its sum
fitness_static(x, u) ==
    LET retval == <<0>>
        overlap == IF Cardinality({t \in DOMAIN pc : pc[t] = "running"}) > 1
                   THEN 1 ELSE 0
    IN  IF ReadsPastEnd(x) /\ u.crash
        THEN Crashed
        ELSE Returned([retval EXCEPT ![1] =
                 At(x, 0, u) * At(x, 0, u) + At(x, 1, u) * At(x, 1, u)
                 + At(x, 2, u) * At(x, 2, u) + At(x, 3, u) * At(x, 3, u)
                 + overlap])

fitness(x, u) ==
    LET retval == <<0>>
    IN  IF ReadsPastEnd(x) /\ u.crash
        THEN Crashed
        ELSE Returned([retval EXCEPT ![1] =
                 At(x, 0, u) * At(x, 0, u) + At(x, 1, u) * At(x, 1, u)
                 + At(x, 2, u) * At(x, 2, u) + At(x, 3, u) * At(x, 3, u)])

\* gradient() with the third entry copied from the second
gradient_typo(x, u) ==
    LET retval == <<0, 0, 0, 0>>
    IN  IF ReadsPastEnd(x) /\ u.crash
        THEN Crashed
        ELSE Returned([retval EXCEPT ![1] = 2 * At(x, 0, u),
                                     ![2] = 2 * At(x, 1, u),
                                     ![3] = 2 * At(x, 1, u),
                                     ![4] = 2 * At(x, 3, u)])

gradient(x, u) ==
    LET retval == <<0, 0, 0, 0>>
    IN  IF ReadsPastEnd(x) /\ u.crash
        THEN Crashed
        ELSE Returned([retval EXCEPT ![1] = 2 * At(x, 0, u),
                                     ![2] = 2 * At(x, 1, u),
                                     ![3] = 2 * At(x, 2, u),
                                     ![4] = 2 * At(x, 3, u)])

RECURSIVE dsparsity_loop(_, _)
dsparsity_loop(i, retval) ==
    IF i < 4 THEN dsparsity_loop(i + 1, Append(retval, <<0, i>>))
    ELSE retval

\* dsparsity() with the loop started at 1
dsparsity_from1 == dsparsity_loop(1, <<>>)

dsparsity == dsparsity_loop(0, <<>>)

\* get_bounds() with the two vectors in the wrong order
get_bounds_swapped ==
    LET lb == <<-10, -10, -10, -10>>
        ub == <<10, 10, 10, 10>>
    IN  <<ub, lb>>

get_bounds ==
    LET lb == <<-10, -10, -10, -10>>
        ub == <<10, 10, 10, 10>>
    IN  <<lb, ub>>

get_name == "My Problem"

extra_info ==
    <<"This is a simple toy problem with one fitness, ",
      "no constraint and a fixed dimension of 4.",
      "The fitness function gradients are also implemented">>

\* best_known() naming a point that is not the minimum
best_known_ones == << <<1, 1, 1, 1>> >>

best_known == << <<0, 0, 0, 0>> >>

(***************************************************************************)
(* Inputs.                                                                 *)
(***************************************************************************)
\* entries tried: small ones, the corners of the box, and just outside it
Vals == (-MaxVal .. MaxVal) \cup {-11, -10, 10, 11}

\* decision vectors of the right length and one entry short
DecisionVectors == [1 .. get_n -> Vals] \cup [1 .. (get_n - 1) -> Vals]

\* what a read past the end of the vector can produce
Garbage == {-3, 0, 7}

\* the outcomes of the undefined behaviour in a call with argument x: the
\* read yields some value, or the process dies; none when x is long enough
UB(x) ==
    IF ReadsPastEnd(x)
    THEN [crash : {FALSE}, val : Garbage] \cup [crash : {TRUE}, val : {0}]
    ELSE [crash : {FALSE}, val : {0}]

NoArg == <<>>

Call(m, x, r) == [method |-> m, x |-> x, status |-> r.status, ret |-> r.ret]

NoCall == Call("none", NoArg, Returned(<<>>))

(***************************************************************************)
(* Spec: a caller invoking the methods of one example0_g object, in any    *)
(* order and with any argument, one call per statement.                    *)
(***************************************************************************)
Init ==
    /\ last = NoCall
    /\ fevals = 0
    /\ trace = <<>>
    /\ pc = [t \in Threads |-> "idle"]
    /\ inv = [t \in Threads |-> NoCall]
    /\ res = [t \in Threads |-> NoCall]

Fitness ==
    /\ last.method = "none"
    /\ \E x \in DecisionVectors : \E u \in UB(x) :
           last' = Call("fitness", x, fitness(x, u))
    /\ UNCHANGED <<fevals, trace, pc, inv, res>>

Gradient ==
    /\ last.method = "none"
    /\ \E x \in DecisionVectors : \E u \in UB(x) :
           last' = Call("gradient", x, gradient(x, u))
    /\ UNCHANGED <<fevals, trace, pc, inv, res>>

Dsparsity ==
    /\ last.method = "none"
    /\ last' = Call("dsparsity", NoArg, Returned(dsparsity))
    /\ UNCHANGED <<fevals, trace, pc, inv, res>>

GetN ==
    /\ last.method = "none"
    /\ last' = Call("get_n", NoArg, Returned(get_n))
    /\ UNCHANGED <<fevals, trace, pc, inv, res>>

GetNf ==
    /\ last.method = "none"
    /\ last' = Call("get_nf", NoArg, Returned(get_nf))
    /\ UNCHANGED <<fevals, trace, pc, inv, res>>

GetBounds ==
    /\ last.method = "none"
    /\ last' = Call("get_bounds", NoArg, Returned(get_bounds))
    /\ UNCHANGED <<fevals, trace, pc, inv, res>>

GetName ==
    /\ last.method = "none"
    /\ last' = Call("get_name", NoArg, Returned(get_name))
    /\ UNCHANGED <<fevals, trace, pc, inv, res>>

ExtraInfo ==
    /\ last.method = "none"
    /\ last' = Call("extra_info", NoArg, Returned(extra_info))
    /\ UNCHANGED <<fevals, trace, pc, inv, res>>

BestKnown ==
    /\ last.method = "none"
    /\ last' = Call("best_known", NoArg, Returned(best_known))
    /\ UNCHANGED <<fevals, trace, pc, inv, res>>

\* the temporary holding the result dies at the end of the full expression
\* that made the call
EndOfStatement ==
    /\ last.method # "none"
    /\ last' = NoCall
    /\ UNCHANGED <<fevals, trace, pc, inv, res>>

Next ==
    \/ Fitness
    \/ Gradient
    \/ Dsparsity
    \/ GetN
    \/ GetNf
    \/ GetBounds
    \/ GetName
    \/ ExtraInfo
    \/ BestKnown
    \/ EndOfStatement

Spec == Init /\ [][Next]_vars

(***************************************************************************)
(* Properties of example0_g, checked under Spec.                           *)
(***************************************************************************)
\* the call of the current statement was method m on a vector of length n
Called(m) == last.method = m

CalledOn4(m) == Called(m) /\ Len(last.x) = 4

OutOfBox(x) == \E i \in 1 .. Len(x) : x[i] < -10 \/ x[i] > 10

\* C1: for every decision vector x of length 4, fitness(x) returns a vector
\* of length exactly 1 (the value of get_nf()) whose entry is
\* x[0]^2 + x[1]^2 + x[2]^2 + x[3]^2; fitness([2,2,2,2]) is [16].
C1_FitnessIsSumOfSquares ==
    CalledOn4("fitness") =>
        /\ last.status = "ok"
        /\ Len(last.ret) = 1
        /\ Len(last.ret) = get_nf
        /\ last.ret[1] = last.x[1]^2 + last.x[2]^2 + last.x[3]^2 + last.x[4]^2
        /\ (last.x = <<2, 2, 2, 2>> => last.ret = <<16>>)

C1_Witness ==
    /\ Called("fitness")
    /\ last.x = <<2, 2, 2, 2>>
    /\ last.ret = <<16>>

\* C2: for every decision vector x of length 4 and every i in 0..3,
\* gradient(x)[i] is 2*x[i]; gradient([2,2,2,2]) is [4,4,4,4].
C2_GradientIsTwiceX ==
    CalledOn4("gradient") =>
        /\ last.status = "ok"
        /\ \A i \in 0 .. 3 : last.ret[i + 1] = 2 * last.x[i + 1]
        /\ (last.x = <<2, 2, 2, 2>> => last.ret = <<4, 4, 4, 4>>)

C2_Witness ==
    /\ Called("gradient")
    /\ last.x = <<2, 2, 2, 2>>
    /\ last.ret = <<4, 4, 4, 4>>

\* C3: fitness called with a decision vector whose length is not 4 signals
\* DimensionMismatch and returns no fitness value: it does not truncate or
\* pad the input and does not read entries past the end of the vector.
C3_WrongLengthSignalsDimensionMismatch ==
    (Called("fitness") /\ Len(last.x) # 4) =>
        /\ last.status = "DimensionMismatch"
        /\ last.ret = <<>>
        /\ ~ReadsPastEnd(last.x)

\* C4: dsparsity() returns exactly the pairs (0,0),(0,1),(0,2),(0,3) in that
\* order, and for every x of length 4 gradient(x) has as many entries as
\* dsparsity(), entry k being 2*x[i] for the pair (j,i) at position k.
C4_GradientFollowsDsparsity ==
    /\ Called("dsparsity") =>
           last.ret = << <<0, 0>>, <<0, 1>>, <<0, 2>>, <<0, 3>> >>
    /\ (CalledOn4("gradient") /\ last.status = "ok") =>
           /\ Len(last.ret) = 4
           /\ Len(last.ret) = Len(dsparsity)
           /\ \A k \in 1 .. Len(last.ret) :
                  /\ dsparsity[k][1] = 0
                  /\ last.ret[k] = 2 * last.x[dsparsity[k][2] + 1]

C4_Witness ==
    /\ Called("gradient")
    /\ last.x = <<1, -2, 10, 11>>
    /\ last.ret = <<2, -4, 20, 22>>

\* C5: get_n() is 4 and get_nf() is 1 in every reachable state: whatever
\* calls were made before, both getters return these values.
C5_DimensionsAreConstant ==
    /\ get_n = 4
    /\ get_nf = 1
    /\ Called("get_n") => last.ret = 4
    /\ Called("get_nf") => last.ret = 1

C5_Witness == Called("get_nf") /\ last.ret = 1

\* C6: get_bounds() returns ([-10,-10,-10,-10], [10,10,10,10]) on every
\* call; both vectors have length get_n() = 4 and lower[i] <= upper[i] for
\* every i.
C6_BoundsAreTheBox ==
    Called("get_bounds") =>
        /\ last.ret = << <<-10, -10, -10, -10>>, <<10, 10, 10, 10>> >>
        /\ Len(last.ret[1]) = get_n
        /\ Len(last.ret[2]) = get_n
        /\ get_n = 4
        /\ \A i \in 1 .. 4 : last.ret[1][i] <= last.ret[2][i]

C6_Witness == Called("get_bounds") /\ last.ret[2] = <<10, 10, 10, 10>>

\* C7: best_known() returns exactly one element, [0,0,0,0]; that point has
\* fitness [0], lies inside get_bounds(), and no x of length 4 has a lower
\* fitness: fitness(x)[0] >= 0.
C7_BestKnownIsTheMinimum ==
    /\ Called("best_known") =>
           /\ last.ret = << <<0, 0, 0, 0>> >>
           /\ \A i \in 1 .. 4 :
                  /\ get_bounds[1][i] <= last.ret[1][i]
                  /\ last.ret[1][i] <= get_bounds[2][i]
    /\ (CalledOn4("fitness") /\ last.x = <<0, 0, 0, 0>>) => last.ret = <<0>>
    /\ CalledOn4("fitness") =>
           /\ last.status = "ok"
           /\ last.ret[1] >= 0

C7_Witness ==
    /\ Called("fitness")
    /\ last.x = <<0, 0, 0, 0>>
    /\ last.ret = <<0>>

\* C8: bounds are not enforced: for x of length 4 with some entry below -10
\* or above 10, fitness(x) and gradient(x) raise no error and return the
\* sum of squares and 2*x[i], as for x inside the box.
C8_BoundsAreNotEnforced ==
    /\ (CalledOn4("fitness") /\ OutOfBox(last.x)) =>
           /\ last.status = "ok"
           /\ last.ret = <<last.x[1]^2 + last.x[2]^2 + last.x[3]^2 + last.x[4]^2>>
    /\ (CalledOn4("gradient") /\ OutOfBox(last.x)) =>
           /\ last.status = "ok"
           /\ last.ret = [i \in 1 .. 4 |-> 2 * last.x[i]]

C8_Witness ==
    /\ Called("fitness")
    /\ last.x = <<11, 0, -11, 2>>
    /\ last.status = "ok"
    /\ last.ret = <<246>>

(***************************************************************************)
(* pagmo::problem, as far as main() relies on it.                          *)
(***************************************************************************)
\* m_fevals of a problem that was just constructed
problem_construct_fevals == 0

\* problem::fitness() forgetting to count
problem_fitness_fevals_nocount(n) == n

\* m_fevals after problem::fitness() ran with m_fevals = n
problem_fitness_fevals(n) == n + 1

(***************************************************************************)
(* SpecMain: main() and its variations: statements that call p0, the       *)
(* problem built from example0_g{}, in any order.                          *)
(***************************************************************************)
\* entries of the vectors passed to p0: those of main() and of best_known()
P0Vals == {0, 2}

P0Inputs == [1 .. get_n -> P0Vals]

\* a statement calling method m of p0 can start
CanCall == last.method = "none" /\ Len(trace) < MaxCalls

P0Called(m, x, r) ==
    /\ last' = Call(m, x, r)
    /\ trace' = Append(trace, m)

InitMain ==
    /\ last = NoCall
    /\ fevals = problem_construct_fevals
    /\ trace = <<>>
    /\ pc = [t \in Threads |-> "idle"]
    /\ inv = [t \in Threads |-> NoCall]
    /\ res = [t \in Threads |-> NoCall]

P0Stream ==
    /\ CanCall
    /\ P0Called("stream", NoArg, Returned(<<get_name, extra_info>>))
    /\ UNCHANGED <<fevals, pc, inv, res>>

P0GetN ==
    /\ CanCall
    /\ P0Called("get_n", NoArg, Returned(get_n))
    /\ UNCHANGED <<fevals, pc, inv, res>>

P0GetNf ==
    /\ CanCall
    /\ P0Called("get_nf", NoArg, Returned(get_nf))
    /\ UNCHANGED <<fevals, pc, inv, res>>

P0GetBounds ==
    /\ CanCall
    /\ P0Called("get_bounds", NoArg, Returned(get_bounds))
    /\ UNCHANGED <<fevals, pc, inv, res>>

P0GetFevals ==
    /\ CanCall
    /\ P0Called("get_fevals", NoArg, Returned(fevals))
    /\ UNCHANGED <<fevals, pc, inv, res>>

P0Fitness ==
    /\ CanCall
    /\ \E x \in P0Inputs : \E u \in UB(x) :
           P0Called("fitness", x, fitness(x, u))
    /\ fevals' = problem_fitness_fevals(fevals)
    /\ UNCHANGED <<pc, inv, res>>

P0Gradient ==
    /\ CanCall
    /\ \E x \in P0Inputs : \E u \in UB(x) :
           P0Called("gradient", x, gradient(x, u))
    /\ UNCHANGED <<fevals, pc, inv, res>>

P0Sparsity ==
    /\ CanCall
    /\ P0Called("sparsity", NoArg, Returned(dsparsity))
    /\ UNCHANGED <<fevals, pc, inv, res>>

P0ExtractBestKnown ==
    /\ CanCall
    /\ P0Called("best_known", NoArg, Returned(best_known))
    /\ UNCHANGED <<fevals, pc, inv, res>>

NextMain ==
    \/ P0Stream
    \/ P0GetN
    \/ P0GetNf
    \/ P0GetBounds
    \/ P0GetFevals
    \/ P0Fitness
    \/ P0Gradient
    \/ P0Sparsity
    \/ P0ExtractBestKnown
    \/ EndOfStatement

SpecMain == InitMain /\ [][NextMain]_vars

RECURSIVE NumCalls(_, _)
\* how many entries of history h name method m
NumCalls(h, m) ==
    IF h = <<>> THEN 0
    ELSE (IF Head(h) = m THEN 1 ELSE 0) + NumCalls(Tail(h), m)

\* C10: get_fevals() of the problem p0 built from example0_g is 0 right
\* after construction, is left alone by the stream operator, get_n, get_nf
\* and get_bounds, is 1 after exactly one call of p0.fitness, and in general
\* is the number of p0.fitness calls made so far.
C10_FevalsCountsFitnessCalls ==
    /\ fevals = NumCalls(trace, "fitness")
    /\ (trace = <<>> => fevals = 0)
    /\ Called("get_fevals") =>
           /\ last.ret = NumCalls(trace, "fitness")
           /\ (NumCalls(trace, "fitness") = 0 => last.ret = 0)
           /\ (NumCalls(trace, "fitness") = 1 => last.ret = 1)

C10_Witness ==
    /\ trace = <<"get_fevals", "fitness", "get_fevals">>
    /\ Called("get_fevals")
    /\ last.ret = 1

(***************************************************************************)
(* SpecConc: threads calling the methods of one example0_g object at the   *)
(* same time.  A call is two steps, so that calls overlap.                 *)
(***************************************************************************)
\* entries of the vectors the threads pass
ConcVals == {-11, 2}

ConcInputs == [1 .. get_n -> ConcVals]

Methods ==
    {"fitness", "gradient", "dsparsity", "get_n", "get_nf", "get_bounds",
     "get_name", "extra_info", "best_known"}

\* the body of method m run on argument x
Run(m, x, u) ==
    CASE m = "fitness" -> fitness(x, u)
      [] m = "gradient" -> gradient(x, u)
      [] m = "dsparsity" -> Returned(dsparsity)
      [] m = "get_n" -> Returned(get_n)
      [] m = "get_nf" -> Returned(get_nf)
      [] m = "get_bounds" -> Returned(get_bounds)
      [] m = "get_name" -> Returned(get_name)
      [] m = "extra_info" -> Returned(extra_info)
      [] m = "best_known" -> Returned(best_known)

Invoke(t) ==
    /\ pc[t] = "idle"
    /\ \E m \in Methods :
           \E x \in (IF m \in {"fitness", "gradient"} THEN ConcInputs ELSE {NoArg}) :
               inv' = [inv EXCEPT ![t] = Call(m, x, Returned(<<>>))]
    /\ pc' = [pc EXCEPT ![t] = "running"]
    /\ UNCHANGED <<last, fevals, trace, res>>

Return(t) ==
    /\ pc[t] = "running"
    /\ \E u \in UB(inv[t].x) :
           res' = [res EXCEPT ![t] = Call(inv[t].method, inv[t].x,
                                          Run(inv[t].method, inv[t].x, u))]
    /\ pc' = [pc EXCEPT ![t] = "done"]
    /\ UNCHANGED <<last, fevals, trace, inv>>

\* the thread is through with the result
Consume(t) ==
    /\ pc[t] = "done"
    /\ pc' = [pc EXCEPT ![t] = "idle"]
    /\ inv' = [inv EXCEPT ![t] = NoCall]
    /\ res' = [res EXCEPT ![t] = NoCall]
    /\ UNCHANGED <<last, fevals, trace>>

NextConc ==
    \/ \E t \in Threads : Invoke(t)
    \/ \E t \in Threads : Return(t)
    \/ \E t \in Threads : Consume(t)

SpecConc == Init /\ [][NextConc]_vars

Done(t) == pc[t] = "done"

\* finished calls of the same method with the same argument agree, and a
\* finished call has the result the method gives for its argument alone
ResultsDependOnArgumentOnly ==
    /\ \A t1, t2 \in Threads :
           (/\ Done(t1) /\ Done(t2)
            /\ inv[t1].method = inv[t2].method
            /\ inv[t1].x = inv[t2].x) => res[t1].ret = res[t2].ret
    /\ \A t \in Threads :
           Done(t) =>
               /\ res[t].status = "ok"
               /\ res[t].method = inv[t].method
               /\ res[t].x = inv[t].x
               /\ \A u \in UB(inv[t].x) :
                      res[t].ret = Run(inv[t].method, inv[t].x, u).ret

\* a step of a call changes nothing but the caller's own result: not the
\* argument, not another thread's call
CallsHaveNoSideEffect ==
    \A t \in Threads :
        (pc[t] = "running" /\ pc'[t] = "done") =>
            /\ inv'[t].method = inv[t].method
            /\ inv'[t].x = inv[t].x
            /\ \A o \in Threads \ {t} :
                   /\ pc'[o] = pc[o]
                   /\ inv'[o].method = inv[o].method
                   /\ inv'[o].x = inv[o].x
                   /\ res'[o].method = res[o].method
                   /\ (res[o].method # "none" => res'[o].ret = res[o].ret)

=============================================================================
